---- MODULE Spec2Model ----
(***************************************************************************)
(* Model of internal/imodels/imodels.go: the PackageInfo wrapper around a  *)
(* scalibr extractor.Inventory, its accessors and FromInventory.           *)
(*                                                                         *)
(* Representation of Go values:                                            *)
(*   - package names and versions are sequences of one-character strings,  *)
(*     so that normalisation, parsing and formatting are computed;         *)
(*   - ecosystem strings are sequences of tokens, ":" being the separator; *)
(*   - a pointer / interface is <<>> when nil and <<v>> when it holds v;   *)
(*   - extractor names, locations, commits and categories are strings.     *)
(***************************************************************************)
EXTENDS Integers, Sequences, FiniteSets, TLC

VARIABLES
    pc,           \* "new": the inventory exists; "wrapped": FromInventory returned
    inventory,    \* the *extractor.Inventory the PackageInfo embeds
    purlCache,    \* PackageInfo.purlCache: <<>> (nil) or <<models.PackageInfo>>
    purlStruct,   \* what Extractor.ToPURL returned: <<>> (nil, or never asked) or <<purl>>
    toPURLCalls,  \* how many times Extractor.ToPURL has been called
    ret,          \* per accessor: <<>> if never called, else <<value of the latest call>>
    first,        \* per accessor: <<>> if never called, else <<value of the first call>>
    calls,        \* number of accessor calls made so far
    warnings      \* number of lines written by log.Printf

vars == <<pc, inventory, purlCache, purlStruct, toPURLCalls, ret, first, calls, warnings>>

\* Bound on the number of accessor calls explored after FromInventory.
MaxCalls == 2

(***************************************************************************)
(* Extractor names and the four static sets                                *)
(***************************************************************************)
sbomExtractors == {"sbom/spdx", "sbom/cdx"}

gitExtractors == {"vcs/gitrepo"}

osExtractors == {"os/dpkg", "os/apk", "os/rpm"}

artifactExtractors ==
    {"javascript/nodemodules", "go/binary", "java/archive", "python/wheelegg"}

\* Extractors that are in none of the sets (manifest / lockfile extractors).
OtherExtractors == {"python/requirements"}

SourceTypeUnknown == "unknown"
SourceTypeOSPackage == "os"
SourceTypeSBOM == "sbom"
SourceTypeGit == "git"
SourceTypeArtifact == "artifact"
SourceTypeProjectPackage == "lockfile"

(***************************************************************************)
(* Strings                                                                 *)
(***************************************************************************)
Seps == {"-", "_", "."}

LowerOf(c) ==
    CASE c = "A" -> "a"
      [] c = "B" -> "b"
      [] OTHER -> c

RECURSIVE ToLower(_)
ToLower(s) ==
    IF s = <<>> THEN <<>> ELSE <<LowerOf(Head(s))>> \o ToLower(Tail(s))

RECURSIVE DropSeps(_)
\* The rest of s after the run of separators it starts with.
DropSeps(s) ==
    IF s # <<>> /\ Head(s) \in Seps THEN DropSeps(Tail(s)) ELSE s

RECURSIVE ReplaceAllLiteralString(_)
\* regexp `[-_.]+` .ReplaceAllLiteralString(s, "-"): leftmost-longest matches.
ReplaceAllLiteralString(s) ==
    IF s = <<>> THEN <<>>
    ELSE IF Head(s) \in Seps
         THEN <<"-">> \o ReplaceAllLiteralString(DropSeps(Tail(s)))
         ELSE <<Head(s)>> \o ReplaceAllLiteralString(Tail(s))

DigitChars == <<"0", "1", "2", "3", "4", "5", "6", "7", "8", "9">>

IsDigit(c) == \E i \in 1..Len(DigitChars) : DigitChars[i] = c

DigitVal(c) == (CHOOSE i \in 1..Len(DigitChars) : DigitChars[i] = c) - 1

RECURSIVE FormatInt(_)
\* fmt verb %d of a non-negative integer.
FormatInt(n) ==
    IF n < 10 THEN <<DigitChars[n + 1]>>
    ELSE FormatInt(n \div 10) \o <<DigitChars[(n % 10) + 1]>>

(***************************************************************************)
(* ecosystem.Parse                                                         *)
(***************************************************************************)
EcosystemGo == <<"Go">>
EcosystemPyPI == <<"PyPI">>

KnownEcosystems == {"Go", "PyPI", "Debian", "Alpine", "Maven"}

RECURSIVE CutBefore(_)
CutBefore(s) ==
    IF s = <<>> \/ Head(s) = ":" THEN <<>> ELSE <<Head(s)>> \o CutBefore(Tail(s))

RECURSIVE CutAfter(_)
CutAfter(s) ==
    IF s = <<>> THEN <<>> ELSE IF Head(s) = ":" THEN Tail(s) ELSE CutAfter(Tail(s))

\* The empty string parses to the zero value without error; an unknown base
\* ecosystem yields the best-effort split together with an error.
Parse(str) ==
    IF str = <<>>
    THEN [eco |-> [Ecosystem |-> <<>>, Suffix |-> <<>>], err |-> FALSE]
    ELSE [eco |-> [Ecosystem |-> CutBefore(str), Suffix |-> CutAfter(str)],
          err |-> ~(Len(CutBefore(str)) = 1 /\ CutBefore(str)[1] \in KnownEcosystems)]

(***************************************************************************)
(* semverlike.ParseSemverLikeVersion                                       *)
(***************************************************************************)
MaxComponents == 3

RECURSIVE DigitsToInt(_)
DigitsToInt(ds) ==
    IF ds = <<>> THEN 0
    ELSE 10 * DigitsToInt(SubSeq(ds, 1, Len(ds) - 1)) + DigitVal(ds[Len(ds)])

RECURSIVE ParseComponents(_, _, _)
\* line: what is left to read; cur: digits of the component being read;
\* comps: the components read so far.  Reading stops at the build string.
ParseComponents(line, cur, comps) ==
    LET closed == IF cur = <<>> THEN comps ELSE Append(comps, DigitsToInt(cur))
    IN  IF line = <<>> THEN closed
        ELSE IF IsDigit(Head(line))
             THEN ParseComponents(Tail(line), Append(cur, Head(line)), comps)
             ELSE IF Head(line) = "."
                  THEN ParseComponents(Tail(line), <<>>, closed)
                  ELSE closed

TrimPrefixV(line) ==
    IF line # <<>> /\ Head(line) = "v" THEN Tail(line) ELSE line

\* The Components of the parsed version: at most maxComponents of them are
\* kept, the others going to the build string.
ParseSemverLikeVersion(line, maxComponents) ==
    LET all == ParseComponents(TrimPrefixV(line), <<>>, <<>>)
    IN  IF Len(all) <= maxComponents THEN all ELSE SubSeq(all, 1, maxComponents)

\* Components.Fetch(n): the n-th component (from 0), 0 when there is none.
Fetch(comps, n) == IF n < Len(comps) THEN comps[n + 1] ELSE 0

(***************************************************************************)
(* package-URL rendering and purl.ToPackage                                *)
(***************************************************************************)
\* PackageURL.String(): the rendered URL, as its <<type, name, version>> parts.
PurlString(p) == <<p.Type, p.Name, p.Version>>

PurlEcosystem(type) ==
    CASE type = "pypi" -> <<"PyPI">>
      [] type = "golang" -> <<"Go">>
      [] type = "deb" -> <<"Debian">>
      [] OTHER -> <<>>

ZeroPackageInfo == [Name |-> <<>>, Version |-> <<>>, Ecosystem |-> <<>>]

\* A URL without a type or without a name does not parse: the zero value is
\* returned with an error.
ToPackage(str) ==
    IF str[1] = "" \/ str[2] = <<>>
    THEN [pkg |-> ZeroPackageInfo, err |-> TRUE]
    ELSE [pkg |-> [Name |-> str[2], Version |-> str[3],
                   Ecosystem |-> PurlEcosystem(str[1])],
          err |-> FALSE]

(***************************************************************************)
(* PackageInfo and its accessors.  pkg is [purlCache, Inventory].          *)
(***************************************************************************)
\* Option value for a pointer: <<>> is nil.
IsNil(ptr) == Len(ptr) = 0

\* The string Ecosystem() parses, and whether parsing it fails.
EcosystemStr(pkg) ==
    IF ~IsNil(pkg.purlCache) THEN pkg.purlCache[1].Ecosystem ELSE pkg.Inventory.Eco

Ecosystem(pkg) == Parse(EcosystemStr(pkg)).eco

\* Lines Ecosystem() writes to the log.
EcosystemLogs(pkg) == IF Parse(EcosystemStr(pkg)).err THEN 1 ELSE 0

NameMetadataFirst(pkg) ==
    LET inv == pkg.Inventory
        md == inv.Metadata
    IN  IF ~IsNil(pkg.purlCache) THEN pkg.purlCache[1].Name
        ELSE IF Ecosystem(pkg).Ecosystem = EcosystemGo /\ inv.Name = <<"g", "o">>
        THEN <<"s", "t", "d", "l", "i", "b">>
        ELSE IF md.kind = "archive" /\ md.ArtifactID # <<>> /\ md.GroupID # <<>>
        THEN md.GroupID \o <<":">> \o md.ArtifactID
        ELSE IF md.kind = "dpkg" /\ md.SourceName # <<>>
        THEN md.SourceName
        ELSE IF md.kind = "apk" /\ md.OriginName # <<>>
        THEN md.OriginName
        ELSE IF Ecosystem(pkg).Ecosystem = EcosystemPyPI
        THEN ToLower(ReplaceAllLiteralString(inv.Name))
        ELSE inv.Name

NameGoPatchFirst(pkg) ==
    LET inv == pkg.Inventory
        md == inv.Metadata
    IN  IF Ecosystem(pkg).Ecosystem = EcosystemGo /\ inv.Name = <<"g", "o">>
        THEN <<"s", "t", "d", "l", "i", "b">>
        ELSE IF ~IsNil(pkg.purlCache) THEN pkg.purlCache[1].Name
        ELSE IF Ecosystem(pkg).Ecosystem = EcosystemPyPI
        THEN ToLower(ReplaceAllLiteralString(inv.Name))
        ELSE IF md.kind = "archive" /\ md.ArtifactID # <<>> /\ md.GroupID # <<>>
        THEN md.GroupID \o <<":">> \o md.ArtifactID
        ELSE IF md.kind = "dpkg" /\ md.SourceName # <<>>
        THEN md.SourceName
        ELSE IF md.kind = "apk" /\ md.OriginName # <<>>
        THEN md.OriginName
        ELSE inv.Name

RECURSIVE ReplaceEachSep(_)
ReplaceEachSep(s) ==
    IF s = <<>> THEN <<>>
    ELSE <<IF Head(s) \in Seps THEN "-" ELSE Head(s)>> \o ReplaceEachSep(Tail(s))

NameNoRunCollapse(pkg) ==
    LET inv == pkg.Inventory
        md == inv.Metadata
    IN  IF ~IsNil(pkg.purlCache) THEN pkg.purlCache[1].Name
        ELSE IF Ecosystem(pkg).Ecosystem = EcosystemGo /\ inv.Name = <<"g", "o">>
        THEN <<"s", "t", "d", "l", "i", "b">>
        ELSE IF Ecosystem(pkg).Ecosystem = EcosystemPyPI
        THEN ToLower(ReplaceEachSep(inv.Name))
        ELSE IF md.kind = "archive" /\ md.ArtifactID # <<>> /\ md.GroupID # <<>>
        THEN md.GroupID \o <<":">> \o md.ArtifactID
        ELSE IF md.kind = "dpkg" /\ md.SourceName # <<>>
        THEN md.SourceName
        ELSE IF md.kind = "apk" /\ md.OriginName # <<>>
        THEN md.OriginName
        ELSE inv.Name

Name(pkg) ==
    LET inv == pkg.Inventory
        md == inv.Metadata
    IN  IF ~IsNil(pkg.purlCache) THEN pkg.purlCache[1].Name
        ELSE IF Ecosystem(pkg).Ecosystem = EcosystemGo /\ inv.Name = <<"g", "o">>
        THEN <<"s", "t", "d", "l", "i", "b">>
        ELSE IF Ecosystem(pkg).Ecosystem = EcosystemPyPI
        THEN ToLower(ReplaceAllLiteralString(inv.Name))
        ELSE IF md.kind = "archive" /\ md.ArtifactID # <<>> /\ md.GroupID # <<>>
        THEN md.GroupID \o <<":">> \o md.ArtifactID
        ELSE IF md.kind = "dpkg" /\ md.SourceName # <<>>
        THEN md.SourceName
        ELSE IF md.kind = "apk" /\ md.OriginName # <<>>
        THEN md.OriginName
        ELSE inv.Name

\* Lines Name() writes to the log: one per Ecosystem() call that fails.
NameLogs(pkg) ==
    IF ~IsNil(pkg.purlCache) THEN 0
    ELSE IF Ecosystem(pkg).Ecosystem = EcosystemGo /\ pkg.Inventory.Name = <<"g", "o">>
    THEN EcosystemLogs(pkg)
    ELSE 2 * EcosystemLogs(pkg)

StdlibPatch == 99

VersionAtLeastTwo(pkg) ==
    IF ~IsNil(pkg.purlCache) THEN pkg.purlCache[1].Version
    ELSE IF Ecosystem(pkg).Ecosystem = EcosystemGo
            /\ Name(pkg) = <<"s", "t", "d", "l", "i", "b">>
            /\ Len(ParseSemverLikeVersion(pkg.Inventory.Version, MaxComponents)) >= 2
    THEN LET v == ParseSemverLikeVersion(pkg.Inventory.Version, MaxComponents)
         IN  FormatInt(Fetch(v, 0)) \o <<".">> \o FormatInt(Fetch(v, 1))
                 \o <<".">> \o FormatInt(StdlibPatch)
    ELSE pkg.Inventory.Version

Version(pkg) ==
    IF ~IsNil(pkg.purlCache) THEN pkg.purlCache[1].Version
    ELSE IF Ecosystem(pkg).Ecosystem = EcosystemGo
            /\ Name(pkg) = <<"s", "t", "d", "l", "i", "b">>
            /\ Len(ParseSemverLikeVersion(pkg.Inventory.Version, MaxComponents)) = 2
    THEN LET v == ParseSemverLikeVersion(pkg.Inventory.Version, MaxComponents)
         IN  FormatInt(Fetch(v, 0)) \o <<".">> \o FormatInt(Fetch(v, 1))
                 \o <<".">> \o FormatInt(StdlibPatch)
    ELSE pkg.Inventory.Version

\* Lines Version() writes to the log: its own Ecosystem() call, and those of
\* Name() when the left operand of && holds.
VersionLogs(pkg) ==
    IF ~IsNil(pkg.purlCache) THEN 0
    ELSE EcosystemLogs(pkg)
         + (IF Ecosystem(pkg).Ecosystem = EcosystemGo THEN NameLogs(pkg) ELSE 0)

LocationLast(pkg) ==
    IF Len(pkg.Inventory.Locations) > 0
    THEN pkg.Inventory.Locations[Len(pkg.Inventory.Locations)]
    ELSE ""

Location(pkg) ==
    IF Len(pkg.Inventory.Locations) > 0 THEN pkg.Inventory.Locations[1] ELSE ""

Commit(pkg) ==
    IF ~IsNil(pkg.Inventory.SourceCode) THEN pkg.Inventory.SourceCode[1].Commit ELSE ""

SourceTypeNilIsProject(pkg) ==
    IF IsNil(pkg.Inventory.Extractor) THEN SourceTypeProjectPackage
    ELSE LET extractorName == pkg.Inventory.Extractor[1]
         IN  IF extractorName \in osExtractors THEN SourceTypeOSPackage
             ELSE IF extractorName \in sbomExtractors THEN SourceTypeSBOM
             ELSE IF extractorName \in gitExtractors THEN SourceTypeGit
             ELSE IF extractorName \in artifactExtractors THEN SourceTypeArtifact
             ELSE SourceTypeProjectPackage

SourceType(pkg) ==
    IF IsNil(pkg.Inventory.Extractor) THEN SourceTypeUnknown
    ELSE LET extractorName == pkg.Inventory.Extractor[1]
         IN  IF extractorName \in osExtractors THEN SourceTypeOSPackage
             ELSE IF extractorName \in sbomExtractors THEN SourceTypeSBOM
             ELSE IF extractorName \in gitExtractors THEN SourceTypeGit
             ELSE IF extractorName \in artifactExtractors THEN SourceTypeArtifact
             ELSE SourceTypeProjectPackage

\* Only scalibrosv.Metadata implements the DepGroups interface here.
DepGroups(pkg) ==
    IF pkg.Inventory.Metadata.kind = "osv"
    THEN pkg.Inventory.Metadata.DepGroupVals
    ELSE <<>>

OSPackageNameSourceName(pkg) ==
    LET md == pkg.Inventory.Metadata
    IN  IF md.kind = "apk" THEN md.PackageName
        ELSE IF md.kind = "dpkg" THEN md.SourceName
        ELSE IF md.kind = "rpm" THEN md.PackageName
        ELSE <<>>

OSPackageName(pkg) ==
    LET md == pkg.Inventory.Metadata
    IN  IF md.kind = "apk" THEN md.PackageName
        ELSE IF md.kind = "dpkg" THEN md.PackageName
        ELSE IF md.kind = "rpm" THEN md.PackageName
        ELSE <<>>

(***************************************************************************)
(* Inputs: the inventories FromInventory is given, and what the external   *)
(* Extractor.ToPURL may return for them.                                   *)
(***************************************************************************)
nGo == <<"g", "o">>
nStdlib == <<"s", "t", "d", "l", "i", "b">>
nMixed == <<"A", ".", "_", "b">>

\* Spellings of PyPI names: case and separator runs vary.
PyNames ==
    { nMixed, <<"a", "-", "b">>, <<"a", "_", "B">>, <<"a", "b">>,
      <<"a", ".", ".", "b", "_">>, <<"_", "a", "-", ".", "b">> }

v119 == <<"1", ".", "1", "9">>
v1194 == <<"1", ".", "1", "9", ".", "4">>

Versions ==
    { v119, v1194, <<>>, <<"1">>, <<"v", "0", "1", ".", "2", "-", "r">>,
      <<"1", ".", "2", ".", "3", ".", "4">> }

Ecosystems == { <<"Go">>, <<"PyPI">>, <<"Debian", ":", "12">>, <<>>, <<"Bogus">> }

mdNil == [kind |-> "nil"]
mdDpkg == [kind |-> "dpkg", PackageName |-> <<"f">>, SourceName |-> <<"f", "s">>]
mdDpkgStdlib == [kind |-> "dpkg", PackageName |-> <<"f">>, SourceName |-> nStdlib]
mdOsv == [kind |-> "osv", DepGroupVals |-> <<"dev", "test">>]

Metadatas ==
    { mdNil, mdDpkg, mdOsv,
      [kind |-> "archive", GroupID |-> <<"g">>, ArtifactID |-> <<"a">>],
      [kind |-> "archive", GroupID |-> <<>>, ArtifactID |-> <<"a">>],
      [kind |-> "dpkg", PackageName |-> <<"f">>, SourceName |-> <<>>],
      [kind |-> "apk", PackageName |-> <<"k">>, OriginName |-> <<"o">>],
      [kind |-> "apk", PackageName |-> <<"k">>, OriginName |-> <<>>],
      [kind |-> "rpm", PackageName |-> <<"r">>] }

AllExtractors ==
    {<<>>} \cup { <<n>> : n \in osExtractors \cup sbomExtractors \cup gitExtractors
                                   \cup artifactExtractors \cup OtherExtractors }

Provenances ==
    { [Locations |-> <<>>, SourceCode |-> <<>>],
      [Locations |-> <<"a">>, SourceCode |-> <<[Commit |-> "c0ffee"]>>],
      [Locations |-> <<"a", "b">>, SourceCode |-> <<>>] }

Inventory(name, version, eco, md, ext, prov) ==
    [Name |-> name, Version |-> version, Eco |-> eco, Metadata |-> md,
     Extractor |-> ext, Locations |-> prov.Locations, SourceCode |-> prov.SourceCode]

DefaultProvenance == [Locations |-> <<"a", "b">>, SourceCode |-> <<>>]

\* Identity: name x ecosystem x metadata, unwrapped, from a SBOM and from dpkg.
IdentityInventories ==
    { Inventory(n, v, e, md, x, DefaultProvenance) :
        n \in {nGo, nStdlib, nMixed}, v \in {v119, v1194}, e \in Ecosystems,
        md \in Metadatas, x \in {<<>>, <<"sbom/spdx">>, <<"os/dpkg">>} }

\* Versions of Go packages.
VersionInventories ==
    { Inventory(n, v, <<"Go">>, md, <<>>, DefaultProvenance) :
        n \in {nGo, nStdlib, nMixed}, v \in Versions, md \in {mdNil, mdDpkgStdlib} }

\* Every extractor, with and without locations and source code.
ClassifierInventories ==
    { Inventory(nMixed, v119, <<"Debian", ":", "12">>, md, x, prov) :
        md \in {mdNil, mdDpkg, mdOsv}, x \in AllExtractors, prov \in Provenances }

\* PyPI packages under their various spellings.
PyPIInventories ==
    { Inventory(n, v119, <<"PyPI">>, md, x, DefaultProvenance) :
        n \in PyNames, md \in {mdNil, mdDpkg}, x \in {<<>>, <<"sbom/cdx">>} }

Inventories ==
    IdentityInventories \cup VersionInventories \cup ClassifierInventories
        \cup PyPIInventories

\* What a SBOM extractor's ToPURL may give: nil, a URL that does not parse
\* (no type), or a URL of a PyPI / Go / untyped-ecosystem package.
PURLs ==
    { [Type |-> "", Name |-> nMixed, Version |-> v119],
      [Type |-> "pypi", Name |-> nMixed, Version |-> v119],
      [Type |-> "golang", Name |-> nGo, Version |-> v119] }

ToPURLResults == {<<>>} \cup { <<p>> : p \in PURLs }

(***************************************************************************)
(* State machine                                                           *)
(***************************************************************************)
Accessors ==
    { "Name", "Ecosystem", "Version", "Location", "Commit", "SourceType",
      "DepGroups", "OSPackageName" }

\* The PackageInfo value the methods are called on.
Self == [purlCache |-> purlCache, Inventory |-> inventory]

Init ==
    /\ pc = "new"
    /\ inventory \in Inventories
    /\ purlCache = <<>>
    /\ purlStruct = <<>>
    /\ toPURLCalls = 0
    /\ ret = [a \in Accessors |-> <<>>]
    /\ first = [a \in Accessors |-> <<>>]
    /\ calls = 0
    /\ warnings = 0

FromInventoryAnyExtractor ==
    /\ pc = "new"
    /\ pc' = "wrapped"
    /\ IF ~IsNil(inventory.Extractor)
       THEN \E p \in ToPURLResults :
                /\ purlStruct' = p
                /\ toPURLCalls' = toPURLCalls + 1
                /\ purlCache' = IF ~IsNil(p)
                                THEN <<ToPackage(PurlString(p[1])).pkg>>
                                ELSE <<>>
       ELSE UNCHANGED <<purlStruct, toPURLCalls, purlCache>>
    /\ UNCHANGED <<inventory, ret, first, calls, warnings>>

FromInventory ==
    /\ pc = "new"
    /\ pc' = "wrapped"
    /\ IF SourceType([purlCache |-> <<>>, Inventory |-> inventory]) = SourceTypeSBOM
       THEN \E p \in ToPURLResults :
                /\ purlStruct' = p
                /\ toPURLCalls' = toPURLCalls + 1
                /\ purlCache' = IF ~IsNil(p)
                                THEN <<ToPackage(PurlString(p[1])).pkg>>
                                ELSE <<>>
       ELSE UNCHANGED <<purlStruct, toPURLCalls, purlCache>>
    /\ UNCHANGED <<inventory, ret, first, calls, warnings>>

\* A call of accessor acc on the wrapped PackageInfo that returns val and
\* writes logs lines to the log.
Return(acc, val, logs) ==
    /\ pc = "wrapped"
    /\ calls < MaxCalls
    /\ calls' = calls + 1
    /\ ret' = [ret EXCEPT ![acc] = <<val>>]
    /\ first' = [first EXCEPT ![acc] = IF IsNil(@) THEN <<val>> ELSE @]
    /\ warnings' = warnings + logs
    /\ UNCHANGED <<pc, inventory, purlCache, purlStruct, toPURLCalls>>

CallName == Return("Name", Name(Self), NameLogs(Self))

CallEcosystem == Return("Ecosystem", Ecosystem(Self), EcosystemLogs(Self))

CallVersionCaching ==
    /\ pc = "wrapped"
    /\ calls < MaxCalls
    /\ calls' = calls + 1
    /\ ret' = [ret EXCEPT !["Version"] = <<Version(Self)>>]
    /\ first' = [first EXCEPT !["Version"] = IF IsNil(@) THEN <<Version(Self)>> ELSE @]
    /\ warnings' = warnings + VersionLogs(Self)
    /\ purlCache' = <<[Name |-> Name(Self), Version |-> Version(Self),
                       Ecosystem |-> EcosystemStr(Self)]>>
    /\ UNCHANGED <<pc, inventory, purlStruct, toPURLCalls>>

CallVersion == Return("Version", Version(Self), VersionLogs(Self))

CallLocation == Return("Location", Location(Self), 0)

CallCommit == Return("Commit", Commit(Self), 0)

CallSourceType == Return("SourceType", SourceType(Self), 0)

CallDepGroups == Return("DepGroups", DepGroups(Self), 0)

CallOSPackageName == Return("OSPackageName", OSPackageName(Self), 0)

Next ==
    \/ FromInventory
    \/ CallName
    \/ CallEcosystem
    \/ CallVersion
    \/ CallLocation
    \/ CallCommit
    \/ CallSourceType
    \/ CallDepGroups
    \/ CallOSPackageName

Spec == Init /\ [][Next]_vars

(***************************************************************************)
(* Properties                                                              *)
(***************************************************************************)
Called(a) == ~IsNil(ret[a])

Got(a) == ret[a][1]

\* The inventory with another raw name.
Renamed(n) == [purlCache |-> purlCache, Inventory |-> [inventory EXCEPT !.Name = n]]

\* The record's ecosystem, as the resolver reports it.
EcoIs(e) == Ecosystem(Self).Ecosystem = e

\* C1: when the rendered package-URL fails to parse, the override cache stays
\* empty and Name(), Version() and Ecosystem() give what the non-override
\* rules give for the raw record.
C1_FailedParseFallsBack ==
    (pc = "wrapped" /\ ~IsNil(purlStruct) /\ ToPackage(PurlString(purlStruct[1])).err)
    => LET raw == [purlCache |-> <<>>, Inventory |-> inventory]
       IN  /\ IsNil(purlCache)
           /\ Called("Name") => Got("Name") = Name(raw)
           /\ Called("Version") => Got("Version") = Version(raw)
           /\ Called("Ecosystem") => Got("Ecosystem") = Ecosystem(raw)

\* C2: with an override identity present, Name() is the override name,
\* Version() the override version and Ecosystem() the parse of the override
\* ecosystem string, whatever the raw record holds.
C2_OverridePrecedence ==
    ~IsNil(purlCache)
    => /\ Called("Name") => Got("Name") = purlCache[1].Name
       /\ Called("Version") => Got("Version") = purlCache[1].Version
       /\ Called("Ecosystem") => Got("Ecosystem") = Parse(purlCache[1].Ecosystem).eco

\* An override for the Go package "go" over a raw record also named "go": the
\* stdlib renaming and the .99 patch would apply without the override.
C2_Witness ==
    /\ ~IsNil(purlCache)
    /\ purlCache[1].Ecosystem = <<"Go">>
    /\ purlCache[1].Name = nGo
    /\ inventory.Name = nGo
    /\ Called("Name")
    /\ Called("Version")

\* C3: ToPURL is called only by FromInventory, once, and if and only if the
\* source type is SBOM; a record of any other source type has no override,
\* and neither has a SBOM record for which no URL was rendered.
C3_OverrideOnlyForSBOM ==
    LET x == inventory.Extractor
        isSBOM == ~IsNil(x) /\ x[1] \in sbomExtractors
    IN  /\ pc = "new" => (toPURLCalls = 0 /\ IsNil(purlCache))
        /\ pc = "wrapped" =>
             /\ toPURLCalls = (IF isSBOM THEN 1 ELSE 0)
             /\ isSBOM <=> (SourceType(Self) = SourceTypeSBOM)
             /\ ~isSBOM => IsNil(purlCache)
             /\ (isSBOM /\ IsNil(purlStruct)) => IsNil(purlCache)

\* A SBOM record whose extractor rendered no URL, after accessor calls.
C3_Witness ==
    /\ pc = "wrapped"
    /\ toPURLCalls = 1
    /\ IsNil(purlStruct)
    /\ calls = MaxCalls

\* C4: without an override, Name() is given by the first applicable rule:
\* Go "go" -> "stdlib"; PyPI -> normalized name; Java archive with group and
\* artifact -> "group:artifact"; Debian source name / Alpine origin name;
\* else the raw name.
C4_NameRuleOrder ==
    (pc = "wrapped" /\ IsNil(purlCache) /\ Called("Name"))
    => LET md == inventory.Metadata
           eco == Parse(inventory.Eco).eco.Ecosystem
       IN  Got("Name") =
             IF eco = <<"Go">> /\ inventory.Name = <<"g", "o">>
             THEN <<"s", "t", "d", "l", "i", "b">>
             ELSE IF eco = <<"PyPI">>
             THEN ToLower(ReplaceAllLiteralString(inventory.Name))
             ELSE IF md.kind = "archive" /\ md.GroupID # <<>> /\ md.ArtifactID # <<>>
             THEN md.GroupID \o <<":">> \o md.ArtifactID
             ELSE IF md.kind = "dpkg" /\ md.SourceName # <<>>
             THEN md.SourceName
             ELSE IF md.kind = "apk" /\ md.OriginName # <<>>
             THEN md.OriginName
             ELSE inventory.Name

\* A PyPI record with Debian metadata: rule 3 wins over rule 5.
C4_Witness ==
    /\ IsNil(purlCache)
    /\ inventory.Eco = <<"PyPI">>
    /\ inventory.Metadata.kind = "dpkg"
    /\ inventory.Metadata.SourceName # <<>>
    /\ Called("Name")

\* C5: SourceType() returns one of the six categories: Unknown exactly for
\* a nil extractor, the category of the set the extractor name is in, and
\* ProjectPackage for a name in none of the four pairwise disjoint sets.
C5_SourceTypeTotal ==
    /\ osExtractors \cap sbomExtractors = {}
    /\ osExtractors \cap gitExtractors = {}
    /\ osExtractors \cap artifactExtractors = {}
    /\ sbomExtractors \cap gitExtractors = {}
    /\ sbomExtractors \cap artifactExtractors = {}
    /\ gitExtractors \cap artifactExtractors = {}
    /\ Called("SourceType") =>
         LET x == inventory.Extractor
             t == Got("SourceType")
         IN  /\ t \in { SourceTypeUnknown, SourceTypeOSPackage, SourceTypeSBOM,
                        SourceTypeGit, SourceTypeArtifact, SourceTypeProjectPackage }
             /\ (t = SourceTypeUnknown) <=> IsNil(x)
             /\ ~IsNil(x) =>
                  /\ (t = SourceTypeOSPackage) <=> (x[1] \in osExtractors)
                  /\ (t = SourceTypeSBOM) <=> (x[1] \in sbomExtractors)
                  /\ (t = SourceTypeGit) <=> (x[1] \in gitExtractors)
                  /\ (t = SourceTypeArtifact) <=> (x[1] \in artifactExtractors)
                  /\ (t = SourceTypeProjectPackage) <=>
                       (x[1] \notin osExtractors \cup sbomExtractors
                                       \cup gitExtractors \cup artifactExtractors)

\* SourceType() was called on a record with no extractor.
C5_Witness ==
    /\ Called("SourceType")
    /\ IsNil(inventory.Extractor)

C7_AccessorsPure ==
    [][pc = "wrapped" =>
         /\ inventory' = inventory
         /\ purlCache' = purlCache
         /\ \A a \in Accessors : ~IsNil(ret'[a]) => ret'[a] = first'[a]]_vars

\* Version() and Name() were both called on a Go stdlib record.
C7_Witness ==
    /\ calls = MaxCalls
    /\ inventory.Eco = <<"Go">>
    /\ inventory.Name = nGo
    /\ inventory.Version = v119
    /\ IsNil(purlCache)
    /\ Called("Version")
    /\ Cardinality({a \in Accessors : Called(a)}) < MaxCalls

\* C8 as stated: for Debian metadata with a non-empty source name, Name() is
\* the source name and OSPackageName() the binary name; OSPackageName() is
\* the PackageName of Alpine, Debian and RPM metadata and empty otherwise.
C8_DebianSourceName ==
    LET md == inventory.Metadata
    IN  /\ (pc = "wrapped" /\ md.kind = "dpkg" /\ md.SourceName # <<>> /\ Called("Name"))
             => Got("Name") = md.SourceName
        /\ Called("OSPackageName") =>
             Got("OSPackageName") =
               IF md.kind \in {"apk", "dpkg", "rpm"} THEN md.PackageName ELSE <<>>

\* C8, amended: the first part holds when no rule before rule 5 applies (no
\* override, not PyPI, not Go "go").
C8_DebianSourceNameNoEarlierRule ==
    LET md == inventory.Metadata
    IN  /\ ( /\ pc = "wrapped"
             /\ md.kind = "dpkg"
             /\ md.SourceName # <<>>
             /\ IsNil(purlCache)
             /\ ~EcoIs(<<"PyPI">>)
             /\ ~(EcoIs(<<"Go">>) /\ inventory.Name = <<"g", "o">>)
             /\ Called("Name") )
             => Got("Name") = md.SourceName
        /\ Called("OSPackageName") =>
             Got("OSPackageName") =
               IF md.kind \in {"apk", "dpkg", "rpm"} THEN md.PackageName ELSE <<>>

\* A Debian record whose Name() is the source name and whose OSPackageName()
\* is the binary name.
C8_Witness ==
    /\ inventory.Metadata = mdDpkg
    /\ inventory.Eco = <<"Debian", ":", "12">>
    /\ IsNil(purlCache)
    /\ Called("Name")
    /\ Called("OSPackageName")
    /\ Got("Name") # Got("OSPackageName")

RECURSIVE PEP503(_)
\* The normalized name, read from the right: a separator that follows a
\* separator adds nothing, any other separator adds "-", a letter its lower case.
PEP503(s) ==
    IF s = <<>> THEN <<>>
    ELSE LET rest == SubSeq(s, 1, Len(s) - 1)
             c == s[Len(s)]
         IN  IF c \in Seps
             THEN IF rest # <<>> /\ rest[Len(rest)] \in Seps
                  THEN PEP503(rest)
                  ELSE PEP503(rest) \o <<"-">>
             ELSE PEP503(rest) \o <<LowerOf(c)>>

\* The names one edit away from s that differ from it only in the case of a
\* letter, in which separator is used, or in the length of a separator run.
Respellings(s) ==
    LET I == 1..Len(s)
        Del(i) == SubSeq(s, 1, i - 1) \o SubSeq(s, i + 1, Len(s))
        Ins(i, c) == SubSeq(s, 1, i) \o <<c>> \o SubSeq(s, i + 1, Len(s))
    IN  { [s EXCEPT ![i] = c] : i \in {j \in I : s[j] \in Seps}, c \in Seps }
        \cup { [s EXCEPT ![i] = c] :
                 i \in {j \in I : s[j] \in {"a", "A"}}, c \in {"a", "A"} }
        \cup { [s EXCEPT ![i] = c] :
                 i \in {j \in I : s[j] \in {"b", "B"}}, c \in {"b", "B"} }
        \cup { Ins(i, c) : i \in {j \in I : s[j] \in Seps}, c \in Seps }
        \cup { Del(i) : i \in {j \in I : j > 1 /\ s[j] \in Seps /\ s[j - 1] \in Seps} }

\* C9 as stated: for a PyPI record, Name() is the raw name lower-cased with
\* each maximal run of - _ . replaced by one "-"; respellings of the raw name
\* have the same Name(), and normalizing a normalized name changes nothing.
C9_PyPINormalized ==
    (pc = "wrapped" /\ EcoIs(<<"PyPI">>) /\ Called("Name"))
    => /\ Got("Name") = PEP503(inventory.Name)
       /\ \A m \in Respellings(inventory.Name) : Name(Renamed(m)) = Got("Name")
       /\ Name(Renamed(Got("Name"))) = Got("Name")

\* C9, amended: for a PyPI record without an override identity.
C9_PyPINormalizedNoOverride ==
    (pc = "wrapped" /\ IsNil(purlCache) /\ EcoIs(<<"PyPI">>) /\ Called("Name"))
    => /\ Got("Name") = PEP503(inventory.Name)
       /\ \A m \in Respellings(inventory.Name) : Name(Renamed(m)) = Got("Name")
       /\ Name(Renamed(Got("Name"))) = Got("Name")

\* A PyPI name with upper case and a run of two separators, normalized.
C9_Witness ==
    /\ IsNil(purlCache)
    /\ inventory.Eco = <<"PyPI">>
    /\ inventory.Name = nMixed
    /\ Called("Name")
    /\ Got("Name") = <<"a", "-", "b">>

\* C10: Location() is the first location of the record, or "" when it has
\* none, with or without an override identity.
C10_LocationFirst ==
    Called("Location")
    => Got("Location") =
         IF Len(inventory.Locations) = 0 THEN "" ELSE Head(inventory.Locations)

\* Location() called on a record with two locations and an override.
C10_Witness ==
    /\ ~IsNil(purlCache)
    /\ Len(inventory.Locations) = 2
    /\ Called("Location")

====
